---- MODULE Spec2Model ----
(***************************************************************************)
(* Lore-Anchor image-protection pipeline: the ingest gateway               *)
(* (apps/api/routers/images.py), the Catalog (apps/api/services/           *)
(* database.py), the Redis work queue (apps/api/services/queue.py), the    *)
(* queue-consuming GPU worker (workers/gpu-worker/main.py) and the         *)
(* Catalog-polling CPU worker (workers/cpu-worker/main.py).                *)
(*                                                                         *)
(* Every call to a dependency (Object Store, Catalog, Queue) is one step;  *)
(* the code between two such calls is local and belongs to the step that   *)
(* follows it.  A dependency call may fail (for the worker: after the      *)
(* three tenacity attempts); failures are counted against MaxEvents.       *)
(***************************************************************************)
EXTENDS Integers, Sequences, FiniteSets, TLC

\* ------------------------------------------------------------------ bounds
MaxImages  == 1   \* uploads attempted
MaxRows    == 7   \* image rows of one owner in one calendar month
MaxEvents  == 2   \* events beyond uploads and deletes: retry requests,
                  \* failed dependency calls, hard kills of a worker,
                  \* payloads pushed on the queue by another producer,
                  \* polls of the CPU worker that find pending rows

Workers  == {1, 2}
Slots    == {1, 2}

ImageIds == 1 .. MaxImages

\* ------------------------------------------------------------- vocabulary
_VALID_STATUSES == {"pending", "processing", "completed", "failed", "deleted"}

NoRow  == "none"          \* no row with this id in the images table
NoUrl  == << >>           \* a NULL protected_url
NoLog  == << >>           \* a NULL error_log / no error text
NoManifest == << >>       \* a NULL c2pa_manifest
NoEnv  == [kind |-> "none", image_id |-> 0, storage_key |-> << >>]

\* The opaque file name of image i (uuid4().hex + extension).
FileName(i) == <<"f1.png", "f2.png", "f3.png", "f4.png">>[i]
Owner(i)    == "u1"
Users       == {"u1", "u2"}   \* authenticated callers (JWT sub)

\* storage_key = f"raw/{user_id}/{uuid.uuid4().hex}{ext}"
RawKey(i) == <<"raw", Owner(i), FileName(i)>>

\* protected_r2_key = f"protected/{image_id}.png"
ImageFile(i) == <<"id1.png", "id2.png", "id3.png", "id4.png">>[i]
ProtKey(i) == <<"protected", ImageFile(i)>>

\* R2_PUBLIC_DOMAIN defaults to "": protected_url is the bare key.
R2_PUBLIC_DOMAIN == << >>
ProtectedUrl(i) == IF R2_PUBLIC_DOMAIN # << >> THEN R2_PUBLIC_DOMAIN \o ProtKey(i)
                                               ELSE ProtKey(i)

\* A payload on a Redis list is JSON text, kept as its tokens: brackets and
\* the members of an object, each a name with its value.
Tok(t) == [t |-> t, name |-> "", value |-> << >>]
Member(n, v) == [t |-> "member", name |-> n, value |-> v]

\* json.dumps of a dict, given as its (name, value) pairs in order.
dumps(pairs) ==
  <<Tok("{")>> \o [k \in 1 .. Len(pairs) |-> Member(pairs[k][1], pairs[k][2])]
               \o <<Tok("}")>>

\* The two list keys: QUEUE_KEY of apps/api/services/queue.py and QUEUE_KEY
\* of workers/gpu-worker/main.py.
ApiQueueKey    == "lore_anchor_tasks"
WorkerQueueKey == "lore_anchor_tasks"

\* QueueService.enqueue: json.dumps({"image_id": ..., "storage_key": ...})
Envelope(i, key) == dumps(<< <<"image_id", <<i>> >>, <<"storage_key", key>> >>)

\* _run_consumer: json.loads(raw_payload), payload["image_id"],
\* payload["storage_key"], with the second field's name as a parameter.
\* The result is the task, or the way the decoding ends: "badjson"
\* (JSONDecodeError), "nofield" (KeyError), "nonobject" (the value is not a
\* dict: TypeError).
DecodeWith(text, keyField) ==
  LET n == Len(text)
      Bad(k) == [kind |-> k, image_id |-> 0, storage_key |-> << >>]
      Has(f) == \E k \in 2 .. n - 1 : text[k].name = f
      Val(f) == text[CHOOSE k \in 2 .. n - 1 : text[k].name = f].value
  IN IF n >= 2 /\ text[1].t = "{" /\ text[n].t = "}"
          /\ \A k \in 2 .. n - 1 : text[k].t = "member"
     THEN IF Has("image_id") /\ Has(keyField)
          THEN [kind |-> "task", image_id |-> Val("image_id")[1],
                storage_key |-> Val(keyField)]
          ELSE Bad("nofield")
     ELSE IF n >= 2 /\ text[1].t = "[" /\ text[n].t = "]"
          THEN Bad("nonobject")
     ELSE Bad("badjson")

DecodeOtherField(text) == DecodeWith(text, "original_url")
Decode(text) == DecodeWith(text, "storage_key")

\* Payloads that json.loads / payload[...] do not turn into a task: a
\* truncated object, an object without storage_key, an array.
Malformed == { <<Tok("{"), Member("image_id", <<1>>)>>,
               dumps(<< <<"image_id", <<1>> >> >>),
               <<Tok("["), Tok("]")>> }

\* The image-processing stages are deterministic in the image: the uploaded
\* bytes decide which of embed_watermark, apply_mist_v2, verify_watermark
\* and the signer (Builder.sign_file inside sign_c2pa) raises on them, if any.
Raises == {"none", "pixelseal", "mist_v2", "verify_watermark", "c2pa_sign"}

VARIABLES
  images,    \* Catalog, images table: [ImageIds -> [status, protected_url,
             \*   watermark_id, c2pa_manifest, download_count]]
  tasks,     \* Catalog, tasks table: Seq of [image_id, completed_at, error_log]
  blobs,     \* Object Store: the set of keys that hold an object
  sealed,    \* watermark_id embedded in the object at ProtKey(i) (0: none)
  content,   \* the uploaded bytes of image i: the stage that raises on them
  queue,     \* Redis list lore_anchor_tasks
  dlq,       \* Redis list lore_anchor_dead_letters
  workers,   \* GPU worker processes: [Workers -> [pc, env, task_id, wm, wrong, err]]
  cpu,       \* CPU worker process: [pc, batch, wm, ok]
  req,       \* gateway requests in flight: [Slots -> [op, pc, image, prot, seen,
             \*   user, row, file]]
  nUploads,  \* uploads attempted
  nEvents,   \* events counted against MaxEvents so far
  nextWm,    \* the next fresh watermark_id (uuid4)
  plan,      \* one owner's month: [subscription_tier, count, up], the
             \* profile's tier, the number of the owner's image rows created
             \* this month and not deleted, and each upload request's position
  lab        \* one call of an image-processing function on its own:
             \* [fn, arg, out]

pipelineVars == <<images, tasks, blobs, sealed, content, queue, dlq, workers,
                  cpu, req, nUploads, nEvents, nextWm, lab>>

vars == <<images, tasks, blobs, sealed, content, queue, dlq, workers, cpu, req,
          nUploads, nEvents, nextWm, plan, lab>>

NoImage == [status |-> NoRow, protected_url |-> NoUrl, watermark_id |-> 0,
            c2pa_manifest |-> NoManifest, download_count |-> 0]
NoFile == [content_type |-> "", size |-> 0, magic |-> "none"]
\* the query (page, page_size) of a list request and its response body
NoList == [query |-> <<0, 0>>, images |-> << >>, total |-> 0, page |-> 0,
           page_size |-> 0, has_more |-> FALSE]
NoReq == [op |-> "idle", pc |-> "idle", image |-> 0, prot |-> NoUrl, seen |-> 0,
          user |-> "u1", row |-> NoImage, file |-> NoFile, list |-> NoList]
WIdle == [pc |-> "idle", env |-> NoEnv, task_id |-> 0, wm |-> 0, wrong |-> 0,
          err |-> NoLog, shutdown |-> FALSE, ran |-> << >>]
CIdle == [pc |-> "idle", batch |-> << >>, wm |-> 0, ok |-> FALSE]

NoLab == [fn |-> "none", arg |-> << >>, out |-> << >>]
NoPlan == [subscription_tier |-> "free", count |-> 0,
           up |-> [r \in Slots |-> "idle"]]

InitPipeline ==
  /\ images   = [i \in ImageIds |-> NoImage]
  /\ tasks    = << >>
  /\ blobs    = {}
  /\ sealed   = [i \in ImageIds |-> 0]
  /\ content  = [i \in ImageIds |-> "none"]
  /\ queue    = << >>
  /\ dlq      = << >>
  /\ workers  = [w \in Workers |-> WIdle]
  /\ cpu      = CIdle
  /\ req      = [r \in Slots |-> NoReq]
  /\ nUploads = 0 /\ nEvents = 0
  /\ nextWm   = 1

Init == InitPipeline /\ plan = NoPlan /\ lab = NoLab

\* A counted event is allowed while the budget lasts.
Event == nEvents < MaxEvents /\ nEvents' = nEvents + 1


\* ------------------------------------------------------- Catalog (images)
\* DatabaseService.create_image: insert with status 'pending'.
create_imageProcessing(i) ==
  [images EXCEPT ![i] = [NoImage EXCEPT !.status = "processing"]]
create_image(i) ==
  [images EXCEPT ![i] = [NoImage EXCEPT !.status = "pending"]]

\* DatabaseService.update_status / GPU worker _update_image_status with no
\* extra column: UPDATE images SET status = s WHERE id = i.  The only
\* condition is the id; a missing row matches nothing.
update_status(i, s) ==
  IF images[i].status = NoRow THEN images
  ELSE [images EXCEPT ![i].status = s]

\* DatabaseService.get_image: SELECT ... WHERE id = i AND status <> 'deleted'
get_imageUnfiltered(i) == images[i].status # NoRow
get_image(i) == images[i].status \notin {NoRow, "deleted"}

\* GPU worker _update_image_status(sb, id, "completed", protected_url=...,
\* watermark_id=...): one UPDATE of the three columns, WHERE id = i (the
\* function has no parameter for c2pa_manifest).
set_completed(i, url, wm) ==
  IF images[i].status = NoRow THEN images
  ELSE [images EXCEPT ![i].status = "completed", ![i].protected_url = url,
                        ![i].watermark_id = wm]

\* ---------------------------------------------------------------- gateway
\* A new request takes the lowest free slot (slots are interchangeable).
FreeSlot(r) == /\ req[r].op = "idle"
               /\ \A s \in Slots : s < r => req[s].op # "idle"

\* The owner check of every per-image handler: row["user_id"] != user_id
\* raises 403 "Access denied".
AuthorizedAny(i, u) == TRUE
Authorized(i, u) == Owner(i) = u

\* The client learns an image id when its upload request has ended.
Uploading(i) == \E r \in Slots : req[r].op = "upload" /\ req[r].image = i

EndReq(r) == req' = [req EXCEPT ![r] = NoReq]
\* A dependency call fails (for the worker: all three tenacity attempts).
Fault     == Event

\* An uploaded file: the declared content type, the number of bytes, and the
\* format whose signature the bytes start with ("none": no known one).
_ALLOWED_CONTENT_TYPES == {"image/png", "image/jpeg", "image/webp"}
_MAX_FILE_SIZE == 20 * 1024 * 1024
Files ==
  {f \in [content_type : _ALLOWED_CONTENT_TYPES \cup {"text/plain"},
          size : {11, 12, _MAX_FILE_SIZE, _MAX_FILE_SIZE + 1},
          magic : _ALLOWED_CONTENT_TYPES \cup {"none"}] :
     f.magic = "image/webp" => f.size >= 12}
PngFile == [content_type |-> "image/png", size |-> 12, magic |-> "image/png"]

\* _validate_magic_bytes: 200 stands for "returns", 415 for the exception.
_validate_magic_bytes(f) ==
  IF f.size < 12 THEN 415
  ELSE IF f.magic \in {"image/png", "image/jpeg"}
       THEN (IF f.content_type # f.magic THEN 415 ELSE 200)
  ELSE IF f.magic = "image/webp"
       THEN (IF f.content_type # "image/webp" THEN 415 ELSE 200)
  ELSE 415

\* upload_image step 1: the content type, the size, then the magic bytes.
ValidateNoSize(f) ==
  IF f.content_type \notin _ALLOWED_CONTENT_TYPES THEN 415
  ELSE _validate_magic_bytes(f)
Validate(f) ==
  IF f.content_type \notin _ALLOWED_CONTENT_TYPES THEN 415
  ELSE IF f.size > _MAX_FILE_SIZE THEN 413
  ELSE _validate_magic_bytes(f)

\* upload_image step 1 raised: 415 or 413, before the try block.
UploadInvalid(r, f) ==
  /\ FreeSlot(r)
  /\ Event
  /\ Validate(f) # 200
  /\ req' = [req EXCEPT ![r] = [NoReq EXCEPT !.op = "upload", !.pc = "rejected",
                                             !.seen = Validate(f), !.file = f]]
  /\ UNCHANGED <<content, images, tasks, blobs, sealed, queue, dlq,
                 workers, cpu, nUploads, nextWm>>
  /\ UNCHANGED <<plan, lab>>

UploadRejected(r) ==
  /\ req[r].op = "upload" /\ req[r].pc = "rejected"
  /\ EndReq(r)
  /\ UNCHANGED <<content, images, tasks, blobs, sealed, queue, dlq,
                 workers, cpu, nUploads, nEvents, nextWm>>
  /\ UNCHANGED <<plan, lab>>

\* upload_image steps 1 and 2: the file passes validation, then
\* storage.upload_file(file_bytes, storage_key, ...)
UploadStore(r, f) ==
  /\ FreeSlot(r)
  /\ Validate(f) = 200
  /\ nUploads < MaxImages
  /\ nUploads' = nUploads + 1
  /\ \/ /\ blobs' = blobs \cup {RawKey(nUploads + 1)}
        /\ \E bytes \in Raises : content' = [content EXCEPT ![nUploads + 1] = bytes]
        /\ req' = [req EXCEPT ![r] = [op |-> "upload", pc |-> "create",
                                      image |-> nUploads + 1, prot |-> NoUrl, seen |-> 0,
                                      user |-> Owner(nUploads + 1),
                                      row |-> NoImage, file |-> f, list |-> NoList]]
        /\ UNCHANGED nEvents
     \/ /\ Fault                       \* 500, nothing was written
        /\ UNCHANGED <<blobs, content, req>>
  /\ UNCHANGED <<images, tasks, sealed, queue, dlq, workers, cpu, nextWm>>
  /\ UNCHANGED <<plan, lab>>

\* upload_image step 3: db.create_image(user_id, original_url=storage_key)
UploadCreate(r) ==
  /\ req[r].op = "upload" /\ req[r].pc = "create"
  /\ \/ /\ images' = create_image(req[r].image)
        /\ req' = [req EXCEPT ![r].pc = "enqueue"]
        /\ UNCHANGED nEvents
     \/ /\ Fault                       \* image_id stays None: 500, orphan blob
        /\ EndReq(r)
        /\ UNCHANGED images
  /\ UNCHANGED <<content, tasks, blobs, sealed, queue, dlq, workers, cpu,
                 nUploads, nextWm>>
  /\ UNCHANGED <<plan, lab>>

\* QueueService.enqueue: rpush(QUEUE_KEY, payload)
enqueue(i, key) == Append(queue, Envelope(i, key))

\* upload_image step 4: queue.enqueue(image_id, storage_key); on success the
\* handler returns UploadResponse(image_id, status="pending") at once.
UploadEnqueue(r) ==
  /\ req[r].op = "upload" /\ req[r].pc = "enqueue"
  /\ \/ /\ queue' = enqueue(req[r].image, RawKey(req[r].image))
        /\ EndReq(r)
        /\ UNCHANGED nEvents
     \/ /\ Fault
        /\ req' = [req EXCEPT ![r].pc = "mark_failed"]
        /\ UNCHANGED queue
  /\ UNCHANGED <<content, images, tasks, blobs, sealed, dlq, workers, cpu,
                 nUploads, nextWm>>
  /\ UNCHANGED <<plan, lab>>

\* _mark_failed_safe(db, image_id): db.set_failed, exceptions swallowed; the
\* handler then raises 500.
MarkFailedSafe(r) ==
  /\ req[r].pc = "mark_failed"
  /\ \/ /\ images' = update_status(req[r].image, "failed")
        /\ UNCHANGED nEvents
     \/ /\ Fault
        /\ UNCHANGED images
  /\ EndReq(r)
  /\ UNCHANGED <<content, tasks, blobs, sealed, queue, dlq, workers, cpu,
                 nUploads, nextWm>>
  /\ UNCHANGED <<plan, lab>>

\* retry_task: the status test of the row read by db.get_image
\* (image["status"] != "failed" raises 409).
RetryAllowedLoose(st) == st \in {"failed", "pending"}
RetryAllowed(st) == st = "failed"

\* retry_task: db.get_image (a row that is not visible is a 404 and the
\* handler has done nothing), then the 409 check: only a row read with a
\* status that RetryAllowed accepts goes on to set_pending.
RetryStart(r, i, u) ==
  /\ FreeSlot(r)
  /\ Event
  /\ ~Uploading(i)
  /\ get_image(i)
  /\ req' = [req EXCEPT ![r] = [op |-> "retry",
                                pc |-> IF ~Authorized(i, u) THEN "forbidden"
                                       ELSE IF RetryAllowed(images[i].status)
                                       THEN "set_pending" ELSE "conflict",
                                image |-> i, prot |-> NoUrl, seen |-> 0,
                                user |-> u, row |-> NoImage,
                                file |-> NoFile, list |-> NoList]]
  /\ UNCHANGED <<content, images, tasks, blobs, sealed, queue, dlq,
                 workers, cpu, nUploads, nextWm>>
  /\ UNCHANGED <<plan, lab>>

\* retry_task: raise HTTPException(409, "Only failed images can be retried")
RetryConflict(r) ==
  /\ req[r].op = "retry" /\ req[r].pc = "conflict"
  /\ EndReq(r)
  /\ UNCHANGED <<content, images, tasks, blobs, sealed, queue, dlq,
                 workers, cpu, nUploads, nEvents, nextWm>>
  /\ UNCHANGED <<plan, lab>>

\* retry_task: db.set_pending(image_id)
RetrySetPending(r) ==
  /\ req[r].op = "retry" /\ req[r].pc = "set_pending"
  /\ \/ /\ images' = update_status(req[r].image, "pending")
        /\ req' = [req EXCEPT ![r].pc = "enqueue"]
        /\ UNCHANGED nEvents
     \/ /\ Fault
        /\ req' = [req EXCEPT ![r].pc = "mark_failed"]
        /\ UNCHANGED images
  /\ UNCHANGED <<content, tasks, blobs, sealed, queue, dlq, workers, cpu,
                 nUploads, nextWm>>
  /\ UNCHANGED <<plan, lab>>

\* retry_task: queue.enqueue(image_id, storage_key=image["original_url"])
RetryEnqueue(r) ==
  /\ req[r].op = "retry" /\ req[r].pc = "enqueue"
  /\ \/ /\ queue' = enqueue(req[r].image, RawKey(req[r].image))
        /\ EndReq(r)
        /\ UNCHANGED nEvents
     \/ /\ Fault
        /\ req' = [req EXCEPT ![r].pc = "mark_failed"]
        /\ UNCHANGED queue
  /\ UNCHANGED <<content, images, tasks, blobs, sealed, dlq, workers, cpu,
                 nUploads, nextWm>>
  /\ UNCHANGED <<plan, lab>>

\* delete_image: db.get_image; the row read here (its protected_url) is what
\* the rest of the handler uses.  A row that get_image does not return (an
\* already deleted one) is a 404.
DeleteStart(r, i, u) ==
  /\ FreeSlot(r)
  /\ ~Uploading(i)
  /\ images[i].status # NoRow
  /\ IF get_image(i) /\ Authorized(i, u)
     THEN /\ req' = [req EXCEPT ![r] = [op |-> "delete", pc |-> "files",
                                        image |-> i,
                                        prot |-> images[i].protected_url,
                                        seen |-> 0, user |-> u, row |-> NoImage,
                                file |-> NoFile, list |-> NoList]]
          /\ UNCHANGED nEvents
     ELSE /\ Event
          /\ req' = [req EXCEPT ![r] = [op |-> "delete",
                                        pc |-> IF get_image(i) THEN "forbidden"
                                               ELSE "notfound",
                                        image |-> i, prot |-> NoUrl, seen |-> 0,
                                        user |-> u, row |-> NoImage,
                                file |-> NoFile, list |-> NoList]]
  /\ UNCHANGED <<content, images, tasks, blobs, sealed, queue, dlq,
                 workers, cpu, nUploads, nextWm>>
  /\ UNCHANGED <<plan, lab>>

\* delete_image: raise HTTPException(404, "Image not found")
DeleteNotFound(r) ==
  /\ req[r].op = "delete" /\ req[r].pc = "notfound"
  /\ EndReq(r)
  /\ UNCHANGED <<content, images, tasks, blobs, sealed, queue, dlq,
                 workers, cpu, nUploads, nEvents, nextWm>>
  /\ UNCHANGED <<plan, lab>>

\* delete_image: storage.delete_file(original_url), then
\* storage.delete_file(protected_url) if the row had one; an exception of
\* either is logged and the handler goes on.
DeleteFiles(r) ==
  /\ req[r].op = "delete" /\ req[r].pc = "files"
  /\ LET i == req[r].image
         p == req[r].prot
     IN \/ /\ blobs' = (blobs \ {RawKey(i)}) \ {p}
           /\ sealed' = IF p = ProtKey(i) THEN [sealed EXCEPT ![i] = 0] ELSE sealed
           /\ UNCHANGED nEvents
        \/ /\ Fault                    \* the first delete raised
           /\ UNCHANGED <<blobs, sealed>>
        \/ /\ p # NoUrl                \* the second delete raised
           /\ Fault
           /\ blobs' = blobs \ {RawKey(i)}
           /\ UNCHANGED sealed
  /\ req' = [req EXCEPT ![r].pc = "row"]
  /\ UNCHANGED <<content, images, tasks, queue, dlq, workers, cpu,
                 nUploads, nextWm>>
  /\ UNCHANGED <<plan, lab>>

\* delete_image: db.delete_image(image_id): UPDATE images SET status =
\* 'deleted' WHERE id = i.
DeleteRow(r) ==
  /\ req[r].op = "delete" /\ req[r].pc = "row"
  /\ \/ /\ images' = update_status(req[r].image, "deleted")
        /\ UNCHANGED nEvents
     \/ /\ Fault                       \* 500
        /\ UNCHANGED images
  /\ EndReq(r)
  /\ UNCHANGED <<content, tasks, blobs, sealed, queue, dlq, workers, cpu,
                 nUploads, nextWm>>
  /\ UNCHANGED <<plan, lab>>

Gateway ==
  \E r \in Slots :
    \/ UploadStore(r, PngFile) \/ UploadCreate(r) \/ UploadEnqueue(r)
    \/ MarkFailedSafe(r)
    \/ \E i \in ImageIds : RetryStart(r, i, Owner(i))
    \/ RetryConflict(r) \/ RetrySetPending(r) \/ RetryEnqueue(r)
    \/ \E i \in ImageIds : DeleteStart(r, i, Owner(i))
    \/ DeleteNotFound(r) \/ DeleteFiles(r) \/ DeleteRow(r)


\* ------------------------------------------------------------- GPU worker
Img(w) == workers[w].env.image_id

\* _get_image_status: SELECT status FROM images WHERE id = i (deleted rows
\* included); None when there is no row.
_get_image_status(i) == IF images[i].status = NoRow THEN "None" ELSE images[i].status

\* The dedup check of _run_consumer: skip on these two statuses only.
SkipStatus(s) == s \in {"processing", "completed"}

\* _run_consumer, loop guard: while not _shutdown_requested.
LoopGuardAlways(sd) == TRUE
LoopGuard(sd) == ~sd

\* The end of one iteration of the consumer loop ("continue" or the end of
\* the loop body): back to the loop guard, which lets the worker wait for
\* the next envelope or ends _run_consumer.
Rest(w) ==
  [WIdle EXCEPT !.shutdown = workers[w].shutdown,
                !.pc = IF LoopGuard(workers[w].shutdown) THEN "idle"
                       ELSE "exited"]

\* Idle worker processes are interchangeable (same code, same state): the
\* envelope goes to the first of them.
FirstIdle(w) == \A v \in Workers : workers[v].pc = "idle" => w <= v

\* _run_consumer: r.blpop(QUEUE_KEY), json.loads, payload["image_id"],
\* payload["storage_key"]; JSONDecodeError and KeyError go to _send_to_dlq,
\* whose own failure is logged and dropped.  A JSON value that is no object
\* raises TypeError, which nothing catches: _run_consumer ends and the
\* process exits (nothing in the repository starts it again).
\* The consumer loop is "while not _shutdown_requested"; the flag is tested
\* only there, before each blpop.
TakeFrom(w) ==
  /\ queue # << >>
  /\ queue' = Tail(queue)
  /\ LET raw == Head(queue)
         p == Decode(raw)
     IN \/ /\ p.kind = "task"
           /\ workers' = [workers EXCEPT ![w] = [@ EXCEPT !.pc = "dedup", !.env = p]]
           /\ UNCHANGED <<dlq, nEvents>>
        \/ /\ p.kind \in {"badjson", "nofield"}
           /\ dlq' = Append(dlq, raw)
           /\ workers' = [workers EXCEPT ![w] = Rest(w)]      \* continue
           /\ UNCHANGED nEvents
        \/ /\ p.kind \in {"badjson", "nofield"}
           /\ Fault                   \* rpush(DEAD_LETTER_KEY) raised
           /\ workers' = [workers EXCEPT ![w] = Rest(w)]      \* continue
           /\ UNCHANGED dlq
        \/ /\ p.kind = "nonobject"
           /\ workers' = [workers EXCEPT ![w] = [WIdle EXCEPT !.pc = "stopped"]]
           /\ UNCHANGED <<dlq, nEvents>>
  /\ UNCHANGED <<content, images, tasks, blobs, sealed, cpu, req,
                 nUploads, nextWm>>
  /\ UNCHANGED <<plan, lab>>

WTake(w) ==
  /\ workers[w].pc = "idle"
  /\ FirstIdle(w)
  /\ TakeFrom(w)

\* _run_consumer, dedup check: a failed read counts as None, and None is
\* processed "anyway".
WDedup(w) ==
  /\ workers[w].pc = "dedup"
  /\ \/ /\ workers' = [workers EXCEPT ![w] =
                         IF SkipStatus(_get_image_status(Img(w)))
                         THEN Rest(w) ELSE [@ EXCEPT !.pc = "mark"]]
        /\ UNCHANGED nEvents
     \/ /\ Fault
        /\ workers' = [workers EXCEPT ![w].pc = "mark"]
  /\ UNCHANGED <<content, images, tasks, blobs, sealed, queue, dlq, cpu,
                 req, nUploads, nextWm>>
  /\ UNCHANGED <<plan, lab>>

\* _run_consumer: _update_image_status(sb, image_id, "processing"); a failure
\* is logged, "continuing anyway".
WMark(w) ==
  /\ workers[w].pc = "mark"
  /\ \/ /\ images' = update_status(Img(w), "processing")
        /\ UNCHANGED nEvents
     \/ /\ Fault
        /\ UNCHANGED images
  /\ workers' = [workers EXCEPT ![w].pc = "insert"]
  /\ UNCHANGED <<content, tasks, blobs, sealed, queue, dlq, cpu, req,
                 nUploads, nextWm>>
  /\ UNCHANGED <<plan, lab>>

\* _insert_task: INSERT INTO tasks (image_id, worker_id, started_at).
NewTask(i) == [image_id |-> i, completed_at |-> FALSE, error_log |-> NoLog]

\* _run_consumer: task_id = _insert_task(sb, image_id); on failure task_id
\* stays None, "continuing anyway".
WInsert(w) ==
  /\ workers[w].pc = "insert"
  /\ \/ /\ tasks' = Append(tasks, NewTask(Img(w)))
        /\ workers' = [workers EXCEPT ![w].pc = "download",
                                      ![w].task_id = Len(tasks) + 1]
        /\ UNCHANGED nEvents
     \/ /\ Fault
        /\ workers' = [workers EXCEPT ![w].pc = "download"]
        /\ UNCHANGED tasks
  /\ UNCHANGED <<content, images, blobs, sealed, queue, dlq, cpu, req,
                 nUploads, nextWm>>
  /\ UNCHANGED <<plan, lab>>

\* Error texts are kept as their words.
\* error_detail of the handler "except PipelineStepError":
\* f"Step: {exc.step} | Error: {exc.original}".
StepError(step) == <<"Step:", step, "|", "Error:", "cause">>
\* error_detail of the handler "except Exception": traceback.format_exc() of
\* the RuntimeError raised in process_image: the two frames with their
\* source lines, then the exception line.
Traceback ==
  <<"Traceback", "_run_consumer", "result_data", "=", "process_image(image_id,",
    "storage_key)", "process_image", "raise", "RuntimeError(", "RuntimeError:",
    "Watermark", "destroyed", "by", "Mist", "(accuracy=70.3%).", "Image",
    "would", "be", "unprotected.">>

\* The stages of process_image in the order of its code; each logs
\* "Step: <name>" when it starts.
StageOrder == <<"download", "pixelseal", "mist_v2", "verify_watermark",
                "c2pa_sign", "upload">>

\* The steps logged by a run that got as far as the stage named step.
RanUpTo(step) ==
  SubSeq(StageOrder, 1, CHOOSE k \in 1 .. Len(StageOrder) : StageOrder[k] = step)

\* A stage raises PipelineStepError(step, exc); nothing after it runs.
ToFailure(w, detail) ==
  workers' = [workers EXCEPT ![w].pc = "fail_image", ![w].err = detail,
                             ![w].ran = RanUpTo(detail[2])]

\* sign_c2pa: "except ImportError" and "except Exception" both end in
\* shutil.copy2(input_path, output_path): what the signer raises never
\* leaves sign_c2pa, so of the stage functions only these raise.
StageRaises(raised) == raised \in {"pixelseal", "mist_v2", "verify_watermark"}

\* process_image: watermark_id = uuid4().hex[:32]; step download
\* (download_from_r2(original_r2_key), Image.open).
WDownload(w) ==
  /\ workers[w].pc = "download"
  /\ nextWm' = nextWm + 1
  /\ \/ /\ workers[w].env.storage_key \in blobs
        /\ workers' = [workers EXCEPT ![w].pc = "stages", ![w].wm = nextWm,
                                      ![w].ran = RanUpTo("download")]
        /\ UNCHANGED nEvents
     \/ /\ workers[w].env.storage_key \notin blobs
        /\ ToFailure(w, StepError("download"))
        /\ UNCHANGED nEvents
     \/ /\ Fault
        /\ ToFailure(w, StepError("download"))
  /\ UNCHANGED <<content, images, tasks, blobs, sealed, queue, dlq, cpu,
                 req, nUploads>>
  /\ UNCHANGED <<plan, lab>>

\* verify_watermark: match = accuracy >= 0.75, over 128 bits.
WATERMARK_BITS == 128
\* (a threshold of one half instead of three quarters)
MatchLoose(wrong) == (WATERMARK_BITS - wrong) * 2 >= WATERMARK_BITS
Match(wrong) == (WATERMARK_BITS - wrong) * 4 >= 3 * WATERMARK_BITS

\* How many of the 128 watermark bits verify_watermark reads back wrong after
\* the perturbation (it depends on the watermark_id minted for the run).
WrongBits == {32, 33}

\* process_image after the download: pixelseal, mist_v2, verify_watermark
\* (RuntimeError on no match is re-raised as it is), c2pa_sign (sign_c2pa
\* catches every exception and copies the file unsigned), upload
\* (upload_to_r2(signed_path, f"protected/{image_id}.png")).
WStages(w) ==
  /\ workers[w].pc = "stages"
  /\ LET raised == content[Img(w)]
     IN \E wrong \in WrongBits :
       \/ /\ StageRaises(raised)
          /\ wrong = 32
          /\ ToFailure(w, StepError(raised))
          /\ UNCHANGED <<blobs, sealed, nEvents>>
       \/ /\ ~StageRaises(raised)
          /\ ~Match(wrong)
          /\ workers' = [workers EXCEPT ![w].pc = "fail_image",
                                        ![w].wrong = wrong,
                                        ![w].err = Traceback,
                                        ![w].ran = RanUpTo("verify_watermark")]
          /\ UNCHANGED <<blobs, sealed, nEvents>>
       \/ /\ ~StageRaises(raised)
          /\ Match(wrong)
          /\ wrong = 32
          /\ Fault
          /\ ToFailure(w, StepError("upload"))
          /\ UNCHANGED <<blobs, sealed>>
       \/ /\ ~StageRaises(raised)
          /\ Match(wrong)
          /\ blobs' = blobs \cup {ProtKey(Img(w))}
          /\ sealed' = [sealed EXCEPT ![Img(w)] = workers[w].wm]
          /\ workers' = [workers EXCEPT ![w].pc = "done_image",
                                        ![w].wrong = wrong,
                                        ![w].ran = StageOrder]
          /\ UNCHANGED nEvents
  /\ UNCHANGED <<content, images, tasks, queue, dlq, cpu, req, nUploads,
                 nextWm>>
  /\ UNCHANGED <<plan, lab>>

\* After the image write: "if task_id:" decides whether a task write follows.
AfterImageWrite(w, pc) ==
  workers' = [workers EXCEPT ![w] = IF @.task_id = 0 THEN Rest(w)
                                    ELSE [@ EXCEPT !.pc = pc]]

\* _run_consumer success: _update_image_status(sb, image_id, "completed",
\* protected_url=..., watermark_id=...); a failure is logged.
WDoneImage(w) ==
  /\ workers[w].pc = "done_image"
  /\ \/ /\ images' = set_completed(Img(w), ProtectedUrl(Img(w)), workers[w].wm)
        /\ UNCHANGED nEvents
     \/ /\ Fault
        /\ UNCHANGED images
  /\ AfterImageWrite(w, "done_task")
  /\ UNCHANGED <<content, tasks, blobs, sealed, queue, dlq, cpu, req,
                 nUploads, nextWm>>
  /\ UNCHANGED <<plan, lab>>

\* _complete_task: UPDATE tasks SET completed_at = now WHERE id = task_id
_complete_task(t) == [tasks EXCEPT ![t].completed_at = TRUE]

WDoneTask(w) ==
  /\ workers[w].pc = "done_task"
  /\ \/ /\ tasks' = _complete_task(workers[w].task_id)
        /\ UNCHANGED nEvents
     \/ /\ Fault
        /\ UNCHANGED tasks
  /\ workers' = [workers EXCEPT ![w] = Rest(w)]
  /\ UNCHANGED <<content, images, blobs, sealed, queue, dlq, cpu, req,
                 nUploads, nextWm>>
  /\ UNCHANGED <<plan, lab>>

\* _run_consumer failure (both handlers): _update_image_status(sb, image_id,
\* "failed"); a failure is logged.
WFailImage(w) ==
  /\ workers[w].pc = "fail_image"
  /\ \/ /\ images' = update_status(Img(w), "failed")
        /\ UNCHANGED nEvents
     \/ /\ Fault
        /\ UNCHANGED images
  /\ AfterImageWrite(w, "fail_task")
  /\ UNCHANGED <<content, tasks, blobs, sealed, queue, dlq, cpu, req,
                 nUploads, nextWm>>
  /\ UNCHANGED <<plan, lab>>

\* _fail_task: UPDATE tasks SET error_log = error_msg[:4000] WHERE id = task_id
_fail_task(t, msg) == [tasks EXCEPT ![t].error_log = msg]

WFailTask(w) ==
  /\ workers[w].pc = "fail_task"
  /\ \/ /\ tasks' = _fail_task(workers[w].task_id, workers[w].err)
        /\ UNCHANGED nEvents
     \/ /\ Fault
        /\ UNCHANGED tasks
  /\ workers' = [workers EXCEPT ![w] = Rest(w)]
  /\ UNCHANGED <<content, images, blobs, sealed, queue, dlq, cpu, req,
                 nUploads, nextWm>>
  /\ UNCHANGED <<plan, lab>>

\* The host kills the worker process while it holds an envelope.  BLPOP has
\* already removed the envelope from the list; nothing puts it back.
Crash(w) ==
  /\ workers[w].pc \notin {"idle", "blpop", "exited", "stopped"}
  /\ Event
  /\ workers' = [workers EXCEPT ![w] = [WIdle EXCEPT !.pc = "stopped"]]
  /\ UNCHANGED <<content, images, tasks, blobs, sealed, queue, dlq, cpu,
                 req, nUploads, nextWm>>
  /\ UNCHANGED <<plan, lab>>

GpuWorker ==
  \E w \in Workers :
    \/ WTake(w) \/ WDedup(w) \/ WMark(w) \/ WInsert(w)
    \/ WDownload(w) \/ WStages(w)
    \/ WDoneImage(w) \/ WDoneTask(w) \/ WFailImage(w) \/ WFailTask(w)
    \/ Crash(w)

\* Another producer pushes a payload on the list (the list is shared: the
\* dead-letter path and the dedup check exist for this).
Inject(p) ==
  /\ Event
  /\ queue' = Append(queue, p)
  /\ UNCHANGED <<content, images, tasks, blobs, sealed, dlq, workers, cpu,
                 req, nUploads, nextWm>>
  /\ UNCHANGED <<plan, lab>>

\* What another producer pushes: a payload that is no task, or once more the
\* envelope of an image that has a row (a re-enqueue, a broker redelivery).
Injected == Malformed \cup
            { Envelope(i, RawKey(i)) :
                i \in {j \in ImageIds : images[j].status # NoRow /\ ~Uploading(j)} }

Next == Gateway \/ GpuWorker \/ (\E p \in Injected : Inject(p))

Spec == Init /\ [][Next]_vars


\* ------------------------------------------------------- worker shutdown
\* _handle_sigterm (SIGTERM, SIGINT): _shutdown_requested = True.  A worker
\* that is between two tasks is either at the loop guard, and then leaves
\* the loop, or inside r.blpop(QUEUE_KEY, timeout=5), which goes on waiting.
Signal(w) ==
  /\ workers[w].pc \notin {"blpop", "exited", "stopped"}
  /\ ~workers[w].shutdown
  /\ Event
  /\ \/ /\ workers[w].pc = "idle"
        /\ \E pc \in {"blpop", "exited"} :
             workers' = [workers EXCEPT ![w].shutdown = TRUE, ![w].pc = pc]
     \/ /\ workers[w].pc # "idle"
        /\ workers' = [workers EXCEPT ![w].shutdown = TRUE]
  /\ UNCHANGED <<content, images, tasks, blobs, sealed, queue, dlq, cpu,
                 req, nUploads, nextWm>>
  /\ UNCHANGED <<plan, lab>>

\* The blpop that was waiting when the signal came returns an envelope.
WTakeLate(w) ==
  /\ workers[w].pc = "blpop"
  /\ TakeFrom(w)

\* The blpop that was waiting when the signal came returns None after its
\* five seconds: "continue", and the loop guard ends the loop.
WTimeout(w) ==
  /\ workers[w].pc = "blpop"
  /\ queue = << >>
  /\ workers' = [workers EXCEPT ![w] = Rest(w)]
  /\ UNCHANGED <<content, images, tasks, blobs, sealed, queue, dlq, cpu,
                 req, nUploads, nEvents, nextWm>>
  /\ UNCHANGED <<plan, lab>>

Shutdown == \E w \in Workers : Signal(w) \/ WTakeLate(w) \/ WTimeout(w)

NextShutdown == Next \/ Shutdown

SpecShutdown == Init /\ [][NextShutdown]_vars

\* ------------------------------------------------------------- CPU worker
\* get_pending_tasks: GET images?status=eq.pending&order=created_at.asc&limit=5
PendingIds  == { i \in ImageIds : images[i].status = "pending" }
Ascending(S) ==
  CHOOSE q \in [1 .. Cardinality(S) -> S] :
    \A a, b \in 1 .. Cardinality(S) : a < b => q[a] < q[b]
PollLimit == 5
get_pending_tasks ==
  LET rows == Ascending(PendingIds)
  IN IF Len(rows) <= PollLimit THEN rows ELSE SubSeq(rows, 1, PollLimit)

\* main_loop: tasks = get_pending_tasks(); an empty list (also: a failed
\* request) sleeps and polls again.  The task carries the row's watermark_id,
\* or a fresh uuid4 when the row has none.
CPoll ==
  /\ cpu.pc = "idle"
  /\ get_pending_tasks # << >>
  /\ Event
  /\ cpu' = [CIdle EXCEPT !.pc = "mark", !.batch = get_pending_tasks]
  /\ UNCHANGED <<images, tasks, blobs, sealed, content, queue, dlq, workers,
                 req, nUploads, nextWm>>
  /\ UNCHANGED <<plan, lab>>

\* update_task_status, second request: PATCH tasks?image_id=eq.{image_id}
\* sets completed_at (and error_log, when given) on every Task row of the
\* image.
PatchTasks(i, error_log) ==
  [t \in 1 .. Len(tasks) |->
     IF tasks[t].image_id # i THEN tasks[t]
     ELSE [tasks[t] EXCEPT !.completed_at = TRUE,
                           !.error_log = IF error_log # NoLog THEN error_log ELSE @]]

\* update_task_status(image_id, status, protected_url, error_log): PATCH
\* images?id=eq.{image_id} (status, and protected_url when given), then the
\* PATCH of tasks; an exception of either is logged and False is returned,
\* which no caller looks at.
update_task_status(i, status, protected_url, error_log) ==
  \/ /\ images' = IF images[i].status = NoRow THEN images
                   ELSE [images EXCEPT ![i].status = status,
                                       ![i].protected_url =
                                          IF protected_url # NoUrl
                                          THEN protected_url ELSE @]
     /\ tasks' = PatchTasks(i, error_log)
     /\ UNCHANGED nEvents
  \/ /\ Fault                         \* the images PATCH failed
     /\ UNCHANGED <<images, tasks>>
  \/ /\ Fault                         \* the tasks PATCH failed
     /\ images' = IF images[i].status = NoRow THEN images
                   ELSE [images EXCEPT ![i].status = status,
                                       ![i].protected_url =
                                          IF protected_url # NoUrl
                                          THEN protected_url ELSE @]
     /\ UNCHANGED tasks

CImg == Head(cpu.batch)

\* process_task: "watermark_id": image.get("watermark_id") or uuid4;
\* update_task_status(image_id, "processing").
CMark ==
  /\ cpu.pc = "mark"
  /\ update_task_status(CImg, "processing", NoUrl, NoLog)
  /\ cpu' = [cpu EXCEPT !.pc = "run"]
  /\ UNCHANGED <<blobs, sealed, content, queue, dlq, workers, req, nUploads,
                 nextWm>>
  /\ UNCHANGED <<plan, lab>>

\* download_image: key = original_url.split("/")[-1].split("?")[0]
CpuDownloadKey(original_url) == <<original_url[Len(original_url)]>>

\* upload_image returns f"{R2_ENDPOINT_URL}/{R2_BUCKET_NAME}/{key}" when
\* R2_PUBLIC_DOMAIN is empty.
CpuProtectedUrl(i) == <<"endpoint", "bucket">> \o ProtKey(i)

\* process_task: download_image, process_image_cpu (embed_watermark,
\* apply_mist_v2; there is no verify_watermark here), upload_image to
\* protected/{image_id}.png.  Any exception leads to the failed write.
CRun ==
  /\ cpu.pc = "run"
  /\ LET i   == CImg
         wm  == IF images[i].watermark_id # 0 THEN images[i].watermark_id
                                              ELSE nextWm
         got == CpuDownloadKey(RawKey(i)) \in blobs
         ok  == got /\ content[i] \notin {"pixelseal", "mist_v2"}
     IN /\ blobs'  = IF ok THEN blobs \cup {ProtKey(i)} ELSE blobs
        /\ sealed' = IF ok THEN [sealed EXCEPT ![i] = wm] ELSE sealed
        /\ nextWm' = IF ok /\ wm = nextWm THEN nextWm + 1 ELSE nextWm
        /\ cpu' = [cpu EXCEPT !.pc = "finish", !.ok = ok, !.wm = IF ok THEN wm ELSE 0]
  /\ UNCHANGED <<images, tasks, content, queue, dlq, workers, req, nUploads,
                 nEvents>>
  /\ UNCHANGED <<plan, lab>>

CpuError == <<"An", "error", "occurred", "(404)", "when", "calling", "the",
              "HeadObject", "operation:", "Not", "Found">>

\* process_task: update_task_status(image_id, "completed", protected_url) or,
\* in the handler, update_task_status(image_id, "failed",
\* error_log=str(exc)[:500]); main_loop then goes on with the next task.
CFinish ==
  /\ cpu.pc = "finish"
  /\ IF cpu.ok THEN update_task_status(CImg, "completed", CpuProtectedUrl(CImg), NoLog)
               ELSE update_task_status(CImg, "failed", NoUrl, CpuError)
  /\ cpu' = IF Len(cpu.batch) > 1
            THEN [CIdle EXCEPT !.pc = "mark", !.batch = Tail(cpu.batch)]
            ELSE CIdle
  /\ UNCHANGED <<blobs, sealed, content, queue, dlq, workers, req, nUploads,
                 nextWm>>
  /\ UNCHANGED <<plan, lab>>

CpuWorker == CPoll \/ CMark \/ CRun \/ CFinish

\* The deployment with the CPU worker running alongside the gateway.
NextCpu == Next \/ CpuWorker

SpecCpu == Init /\ [][NextCpu]_vars

\* ------------------------------------------------------- download tracking
\* track_download: db.get_image (a row that is not visible is a 404 and the
\* handler has done nothing), then the 409 check on the status read.
TrackStart(r, i, u) ==
  /\ FreeSlot(r)
  /\ Event
  /\ ~Uploading(i)
  /\ get_image(i)
  /\ req' = [req EXCEPT ![r] = [op |-> "track",
                                pc |-> IF ~Authorized(i, u) THEN "forbidden"
                                       ELSE IF images[i].status = "completed"
                                       THEN "read" ELSE "conflict",
                                image |-> i, prot |-> NoUrl, seen |-> 0,
                                user |-> u, row |-> NoImage,
                                file |-> NoFile, list |-> NoList]]
  /\ UNCHANGED <<content, images, tasks, blobs, sealed, queue, dlq,
                 workers, cpu, nUploads, nextWm>>
  /\ UNCHANGED <<plan, lab>>

\* track_download: raise HTTPException(409, "Download can only be tracked
\* for completed images")
TrackConflict(r) ==
  /\ req[r].op = "track" /\ req[r].pc = "conflict"
  /\ EndReq(r)
  /\ UNCHANGED <<content, images, tasks, blobs, sealed, queue, dlq,
                 workers, cpu, nUploads, nEvents, nextWm>>
  /\ UNCHANGED <<plan, lab>>

\* increment_download_count, first statement: row = self.get_image(image_id);
\* None raises KeyError (a 500); otherwise current = row["download_count"].
TrackRead(r) ==
  /\ req[r].op = "track" /\ req[r].pc = "read"
  /\ req' = [req EXCEPT ![r] =
               IF get_image(req[r].image)
               THEN [@ EXCEPT !.pc = "write",
                              !.seen = images[req[r].image].download_count]
               ELSE NoReq]
  /\ UNCHANGED <<content, images, tasks, blobs, sealed, queue, dlq,
                 workers, cpu, nUploads, nEvents, nextWm>>
  /\ UNCHANGED <<plan, lab>>

\* increment_download_count, second statement: UPDATE images SET
\* download_count = current + 1 WHERE id = i; the handler returns the value
\* written.
TrackWrite(r) ==
  /\ req[r].op = "track" /\ req[r].pc = "write"
  /\ images' = [images EXCEPT ![req[r].image].download_count = req[r].seen + 1]
  /\ EndReq(r)
  /\ UNCHANGED <<content, tasks, blobs, sealed, queue, dlq, workers, cpu,
                 nUploads, nEvents, nextWm>>
  /\ UNCHANGED <<plan, lab>>

Track ==
  \E r \in Slots :
    \/ \E i \in ImageIds : TrackStart(r, i, Owner(i))
    \/ TrackConflict(r) \/ TrackRead(r) \/ TrackWrite(r)

NextTrack == Next \/ Track

SpecTrack == Init /\ [][NextTrack]_vars

\* ------------------------------------------------------------ image reads
\* GET /images/{image_id} and GET /tasks/{image_id}/status: db.get_image (a
\* row that is not visible is a 404), the owner check, then the response is
\* built from the row that was read.
ReadStart(r, i, u, op) ==
  /\ FreeSlot(r)
  /\ Event
  /\ ~Uploading(i)
  /\ get_image(i)
  /\ req' = [req EXCEPT ![r] =
               IF Authorized(i, u)
               THEN [NoReq EXCEPT !.op = op, !.pc = "ok", !.image = i,
                                  !.user = u, !.row = images[i]]
               ELSE [NoReq EXCEPT !.op = op, !.pc = "forbidden", !.image = i,
                                  !.user = u]]
  /\ UNCHANGED <<content, images, tasks, blobs, sealed, queue, dlq,
                 workers, cpu, nUploads, nextWm>>
  /\ UNCHANGED <<plan, lab>>

GetStart(r, i, u) == ReadStart(r, i, u, "get")

StatusStart(r, i, u) == ReadStart(r, i, u, "status")

\* get_image / get_task_status: return ImageRecord(**row) /
\* TaskStatusResponse(status=image["status"], ...)
ReadEnd(r) ==
  /\ req[r].op \in {"get", "status"} /\ req[r].pc = "ok"
  /\ EndReq(r)
  /\ UNCHANGED <<content, images, tasks, blobs, sealed, queue, dlq,
                 workers, cpu, nUploads, nEvents, nextWm>>
  /\ UNCHANGED <<plan, lab>>

\* every per-image handler: raise HTTPException(403, "Access denied")
Forbidden(r) ==
  /\ req[r].pc = "forbidden"
  /\ EndReq(r)
  /\ UNCHANGED <<content, images, tasks, blobs, sealed, queue, dlq,
                 workers, cpu, nUploads, nEvents, nextWm>>
  /\ UNCHANGED <<plan, lab>>

\* What the caller of request r is sent: the status code and the fields of
\* the image that the body carries.
Response(r) ==
  CASE req[r].pc = "forbidden" -> [code |-> 403, image |-> NoImage]
    [] req[r].pc = "notfound"  -> [code |-> 404, image |-> NoImage]
    [] req[r].pc = "conflict"  -> [code |-> 409, image |-> NoImage]
    [] req[r].pc = "ok"        -> [code |-> 200, image |-> req[r].row]
    [] OTHER                   -> [code |-> 0, image |-> NoImage]

\* Requests on an image by anyone, its owner and others.
Access ==
  \E r \in Slots :
    \/ \E i \in ImageIds, u \in Users :
         GetStart(r, i, u) \/ StatusStart(r, i, u)
    \/ ReadEnd(r) \/ Forbidden(r)
    \/ \E i \in ImageIds : \E u \in Users \ {Owner(i)} :
         RetryStart(r, i, u) \/ DeleteStart(r, i, u) \/ TrackStart(r, i, u)

NextAccess == Next \/ Access

SpecAccess == Init /\ [][NextAccess]_vars

\* ------------------------------------------------ envelope without a row
\* Another producer pushes a well-formed envelope that names an image
\* without a row: an id whose upload ended before create_image wrote it.
InjectOrphan(i) ==
  /\ i <= nUploads /\ ~Uploading(i)
  /\ images[i].status = NoRow
  /\ Inject(Envelope(i, RawKey(i)))

NextOrphan == Next \/ (\E i \in ImageIds : InjectOrphan(i))

SpecOrphan == Init /\ [][NextOrphan]_vars

\* ------------------------------------------- runs without dependency failure
\* The steps of the handlers and of the consumer loop in which no dependency
\* call fails and no process is killed (such steps leave nEvents alone).
\* A request that has started goes on by itself:
RequestStep(r) ==
  /\ \/ UploadCreate(r) \/ UploadEnqueue(r)
     \/ RetryConflict(r) \/ RetrySetPending(r) \/ RetryEnqueue(r)
  /\ UNCHANGED nEvents

\* One iteration of _run_consumer, step by step.
WorkerStep(w) ==
  /\ \/ WTake(w) \/ WDedup(w) \/ WMark(w) \/ WInsert(w)
     \/ WDownload(w) \/ WStages(w)
     \/ WDoneImage(w) \/ WDoneTask(w) \/ WFailImage(w) \/ WFailTask(w)
  /\ UNCHANGED nEvents

\* The host kills a worker process while another one keeps running.
KillOne(w) ==
  /\ \E v \in Workers \ {w} : workers[v].pc # "stopped"
  /\ Crash(w)

\* Clients upload and retry as they like (retries are counted events).
NextLive ==
  \/ \E r \in Slots : (UploadStore(r, PngFile) /\ UNCHANGED nEvents)
  \/ \E r \in Slots, i \in ImageIds : RetryStart(r, i, Owner(i))
  \/ \E r \in Slots : RequestStep(r)
  \/ \E w \in Workers : WorkerStep(w)
  \/ \E w \in Workers : KillOne(w)

\* Fair scheduling: a handler that can go on does, and so does every
\* consumer loop (asyncio runs the handlers; each worker is a process).
SpecLive ==
  /\ Init /\ [][NextLive]_vars
  /\ \A r \in Slots : WF_vars(RequestStep(r))
  /\ \A w \in Workers : WF_vars(WorkerStep(w))

\* ------------------------------------------------- verify_watermark alone
\* A watermark id is 32 hex digits, the most significant first.
IdLen == 32

\* int(id[:32], 16): the positions (0 = least significant) of the bits set.
IdBits(id) ==
  {n \in 0 .. WATERMARK_BITS - 1 :
     (id[IdLen - (n \div 4)] \div (2 ^ (n % 4))) % 2 = 1}

\* bin(expected_val ^ extracted_val).count("1")
HammingLowHalf(a, b) ==
  Cardinality({n \in (IdBits(a) \ IdBits(b)) \cup (IdBits(b) \ IdBits(a)) :
                 n < 64})
Hamming(a, b) ==
  Cardinality((IdBits(a) \ IdBits(b)) \cup (IdBits(b) \ IdBits(a)))

\* verify_watermark(image, expected_id), the image given by the id that
\* extract_watermark reads from it: (match, accuracy), the accuracy kept as
\* the fraction (WATERMARK_BITS - wrong) / WATERMARK_BITS.
verify_watermark(extracted, expected_id) ==
  LET wrong == Hamming(expected_id, extracted)
  IN [match |-> Match(wrong),
      accuracy |-> <<WATERMARK_BITS - wrong, WATERMARK_BITS>>]

\* The id whose digits are all d, and id with its k lowest bits inverted
\* (what the extraction reads when k bits did not survive).
Uniform(d) == [j \in 1 .. IdLen |-> d]
FlipLow(id, k) ==
  [j \in 1 .. IdLen |->
     LET lo == 4 * (IdLen - j)
         flip(b) == lo + b < k
         bit(b) == (id[j] \div (2 ^ b)) % 2
         new(b) == IF flip(b) THEN 1 - bit(b) ELSE bit(b)
     IN new(0) + 2 * new(1) + 4 * new(2) + 8 * new(3)]

VerifyInputs ==
  {[expected |-> Uniform(d), extracted |-> FlipLow(Uniform(d), k), flipped |-> k] :
     d \in {0, 10, 15}, k \in 0 .. WATERMARK_BITS}

VerifyCall ==
  /\ lab.fn = "verify_watermark" /\ lab.out = << >>
  /\ lab' = [lab EXCEPT !.out = <<verify_watermark(lab.arg.extracted,
                                                    lab.arg.expected)>>]
  /\ UNCHANGED <<images, tasks, blobs, sealed, content, queue, dlq, workers,
                 cpu, req, nUploads, nEvents, nextWm, plan>>

InitVerify ==
  /\ InitPipeline /\ plan = NoPlan
  /\ \E a \in VerifyInputs :
       lab = [fn |-> "verify_watermark", arg |-> a, out |-> << >>]

SpecVerify == InitVerify /\ [][VerifyCall]_vars

\* ---------------------------------------------------- apply_mist_v2 alone
\* An image is one row of one channel: a sequence of pixel values 0..255.
\* MIST_EPSILON = int(os.getenv("MIST_EPSILON", "8"))
MIST_EPSILON == 8
VaeBlock == 8

Abs(x) == IF x < 0 THEN -x ELSE x
Clip(x, lo, hi) == IF x < lo THEN lo ELSE IF x > hi THEN hi ELSE x

\* image.resize((n, ...), Image.LANCZOS): every output pixel is a weighted
\* mean of the input pixels around its position; kept here as the mean of
\* the first and the last input pixel that its footprint touches.  The same
\* width gives the same image.
Resize(img, n) ==
  [k \in 1 .. n |->
     LET lo == ((k - 1) * Len(img)) \div n + 1
         hi == (k * Len(img) + n - 1) \div n
     IN (img[lo] + img[hi]) \div 2]

\* _pgd_vae: align to multiples of 8 (resize), PGD with the perturbation
\* projected onto the eps-ball and the pixels clamped, then resize back to
\* the original size.  noise is where the random start and the gradient
\* signs leave the perturbation before the projection.
_pgd_vae(image, noise) ==
  LET w  == Len(image)
      nw == (w \div VaeBlock) * VaeBlock
      x_orig == IF nw # w THEN Resize(image, nw) ELSE image
      x_adv == [k \in 1 .. nw |->
                  Clip(x_orig[k] + Clip(noise[k], -MIST_EPSILON, MIST_EPSILON),
                       0, 255)]
  IN IF nw # w THEN Resize(x_adv, w) ELSE x_adv

\* _freq_perturbation: a perturbation on the full 8-pixel blocks only,
\* np.clip(perturbation, -eps, eps), np.clip(x + perturbation, 0, 255).
_freq_perturbation(image, noise) ==
  LET w    == Len(image)
      full == (w \div VaeBlock) * VaeBlock
  IN [k \in 1 .. w |->
        IF k <= full
        THEN Clip(image[k] + Clip(noise[k], -MIST_EPSILON, MIST_EPSILON), 0, 255)
        ELSE image[k]]

\* apply_mist_v2: VAE mode, and freq mode when VAE mode raises.
apply_mist_v2(image, vae_ok, noise) ==
  IF vae_ok THEN _pgd_vae(image, noise) ELSE _freq_perturbation(image, noise)

\* process_image, step mist_v2: protected = apply_mist_v2(watermarked, ...);
\* protected.save(protected_path).  Nothing is compared with the input; the
\* step raises only what apply_mist_v2 raises.
mist_v2_step(image, vae_ok, noise) ==
  [raised |-> FALSE, protected |-> apply_mist_v2(image, vae_ok, noise)]

\* max over the pixels of |a - b| (the largest number when the shapes differ)
MaxDiff(a, b) ==
  IF Len(a) # Len(b) THEN 255
  ELSE LET D == {Abs(a[k] - b[k]) : k \in 1 .. Len(a)}
       IN CHOOSE d \in D : \A e \in D : e <= d

\* Watermarked inputs: flat rows and rows with one sharp edge, 8 or 9 wide.
MistWidths == {8, 9}
Flat(w, v) == [k \in 1 .. w |-> v]
Edge(w, e) == [k \in 1 .. w |-> IF k <= e THEN 0 ELSE 255]
MistImages ==
  {Flat(w, v) : w \in MistWidths, v \in {0, 4, 128, 252, 255}}
    \cup UNION {{Edge(w, e) : e \in 1 .. w - 1} : w \in MistWidths}

\* Raw perturbations, before the projection: too low, too high, alternating.
Noises ==
  {[k \in 1 .. 9 |-> -12], [k \in 1 .. 9 |-> 12],
   [k \in 1 .. 9 |-> IF k % 2 = 0 THEN 8 ELSE -5]}

MistInputs ==
  [image : MistImages, vae_ok : BOOLEAN, noise : Noises]

MistCall ==
  /\ lab.fn = "mist_v2" /\ lab.out = << >>
  /\ lab' = [lab EXCEPT !.out = <<mist_v2_step(lab.arg.image, lab.arg.vae_ok,
                                                lab.arg.noise)>>]
  /\ UNCHANGED <<images, tasks, blobs, sealed, content, queue, dlq, workers,
                 cpu, req, nUploads, nEvents, nextWm, plan>>

InitMist ==
  /\ InitPipeline /\ plan = NoPlan
  /\ \E a \in MistInputs : lab = [fn |-> "mist_v2", arg |-> a, out |-> << >>]

SpecMist == InitMist /\ [][MistCall]_vars

\* -------------------------------------------------------------- listing
\* The ids of a set of images as a list, newest first (ids are given out in
\* upload order): order("created_at", desc=True).
NewestFirst(S) ==
  [k \in 1 .. Cardinality(S) |->
     CHOOSE x \in S : Cardinality({y \in S : y >= x}) = k]

Min(a, b) == IF a < b THEN a ELSE b

\* DatabaseService.list_images_by_user: the count and the page of the rows
\* of user_id that are not deleted; range(offset, offset + page_size - 1).
list_images_by_user(u, page, page_size) ==
  LET all == NewestFirst({i \in ImageIds : /\ images[i].status # NoRow
                                           /\ Owner(i) = u
                                           /\ images[i].status # "deleted"})
      offset == (page - 1) * page_size
  IN [rows  |-> SubSeq(all, offset + 1, Min(offset + page_size, Len(all))),
      total |-> Len(all)]

\* list_images: "if page < 1: page = 1"
EffectivePage(page) == IF page < 1 THEN 1 ELSE page

\* list_images: "if page_size < 1 or page_size > 100: page_size = 20"
EffectivePageSize(page_size) ==
  IF page_size < 1 \/ page_size > 100 THEN 20 ELSE page_size

\* list_images: the PaginatedImageListResponse for a query.
list_images(u, page, page_size) ==
  LET pg  == EffectivePage(page)
      ps  == EffectivePageSize(page_size)
      res == list_images_by_user(u, pg, ps)
  IN [query |-> <<page, page_size>>, images |-> res.rows, total |-> res.total,
      page |-> pg, page_size |-> ps, has_more |-> (pg * ps) < res.total]

\* The query parameters a caller sends; (1, 20) are the defaults.
Pages == {-1, 0, 1, 2}
PageSizes == {-1, 0, 1, 2, 20, 100, 101, 200}

\* GET /images/
ListStart(r, u, page, page_size) ==
  /\ FreeSlot(r)
  /\ Event
  /\ req' = [req EXCEPT ![r] =
               [NoReq EXCEPT !.op = "list", !.pc = "ok", !.user = u,
                             !.list = list_images(u, page, page_size)]]
  /\ UNCHANGED <<content, images, tasks, blobs, sealed, queue, dlq,
                 workers, cpu, nUploads, nextWm>>
  /\ UNCHANGED <<plan, lab>>

ListEnd(r) ==
  /\ req[r].op = "list" /\ req[r].pc = "ok"
  /\ EndReq(r)
  /\ UNCHANGED <<content, images, tasks, blobs, sealed, queue, dlq,
                 workers, cpu, nUploads, nEvents, nextWm>>
  /\ UNCHANGED <<plan, lab>>

\* The gateway's upload and read handlers while no worker runs and nobody
\* retries or deletes.
NextList ==
  \E r \in Slots :
    \/ UploadStore(r, PngFile) \/ UploadCreate(r) \/ UploadEnqueue(r)
    \/ MarkFailedSafe(r)
    \/ \E i \in ImageIds, u \in Users : GetStart(r, i, u)
    \/ ReadEnd(r) \/ Forbidden(r)
    \/ \E u \in Users, page \in Pages, page_size \in PageSizes :
         ListStart(r, u, page, page_size)
    \/ ListEnd(r)

SpecList == Init /\ [][NextList]_vars

\* ------------------------------------------------------ upload validation
\* The upload handler alone, called with any file.
NextUpload ==
  \E r \in Slots :
    \/ \E f \in Files : UploadStore(r, f) \/ UploadInvalid(r, f)
    \/ UploadRejected(r)
    \/ UploadCreate(r) \/ UploadEnqueue(r) \/ MarkFailedSafe(r)

SpecUpload == Init /\ [][NextUpload]_vars

\* ------------------------------------------------------------ upload quota
\* The quota side of upload_image, for one owner in one calendar month: the
\* rows are counted, not told apart.
FREE_TIER_MONTHLY_LIMIT == 5

\* db.get_profile(user_id)["subscription_tier"]
get_profile == plan.subscription_tier

\* db.count_images_this_month(user_id, start_of_month): the owner's rows with
\* created_at >= month start and status <> 'deleted'.
count_images_this_month == plan.count

\* check_user_usage_limit, first component of the result (can_upload).
check_user_usage_limit ==
  IF get_profile = "pro" THEN TRUE
  ELSE count_images_this_month < FREE_TIER_MONTHLY_LIMIT

\* A new upload takes the lowest free slot.
FreeUp(r) == /\ plan.up[r] = "idle"
             /\ \A q \in Slots : q < r => plan.up[q] # "idle"

\* upload_image step 0: the usage check, before and outside the try block.
QuotaCheck(r) ==
  /\ FreeUp(r)
  /\ plan' = [plan EXCEPT !.up[r] = IF check_user_usage_limit
                                    THEN "store" ELSE "rejected"]
  /\ UNCHANGED pipelineVars

\* upload_image: raise HTTPException(429, "Monthly limit reached ...")
QuotaReject(r) ==
  /\ plan.up[r] = "rejected"
  /\ plan' = [plan EXCEPT !.up[r] = "idle"]
  /\ UNCHANGED pipelineVars

\* upload_image steps 1 and 2: validation and storage.upload_file; a
\* rejected file or a failed store ends the request (415 / 413 / 500).
QuotaStore(r) ==
  /\ plan.up[r] = "store"
  /\ \/ plan' = [plan EXCEPT !.up[r] = "create"]
     \/ plan' = [plan EXCEPT !.up[r] = "idle"]
  /\ UNCHANGED pipelineVars

\* upload_image step 3: db.create_image inserts the row (the enqueue and the
\* compensation after it leave the row in place); a failed insert is a 500.
QuotaCreate(r) ==
  /\ plan.up[r] = "create"
  /\ \/ /\ plan.count < MaxRows
        /\ plan' = [plan EXCEPT !.up[r] = "idle", !.count = @ + 1]
     \/ plan' = [plan EXCEPT !.up[r] = "idle"]
  /\ UNCHANGED pipelineVars

\* delete_image on one of the owner's rows of this month: the row's status
\* becomes 'deleted' and the count no longer includes it.
QuotaDelete ==
  /\ plan.count > 0
  /\ plan' = [plan EXCEPT !.count = @ - 1]
  /\ UNCHANGED pipelineVars

NextQuota ==
  \/ \E r \in Slots : QuotaCheck(r) \/ QuotaReject(r) \/ QuotaStore(r)
                        \/ QuotaCreate(r)
  \/ QuotaDelete

\* The owner's month so far: any tier, any count the cap allows.
InitQuota ==
  /\ InitPipeline
  /\ plan \in [subscription_tier : {"free", "pro"},
               count : 0 .. FREE_TIER_MONTHLY_LIMIT,
               up : {[r \in Slots |-> "idle"]}]
  /\ lab = NoLab

SpecQuota == InitQuota /\ [][NextQuota]_vars

\* ================================================================== claims
\* Number of envelopes for image i in a list of payloads.
EnvCount(q, i) ==
  Cardinality({ k \in 1 .. Len(q) : /\ Decode(q[k]).kind = "task"
                                     /\ Decode(q[k]).image_id = i })

\* A worker holds an envelope for image i.
Held(ws, i) ==
  \E w \in Workers : ws[w].pc \notin {"idle", "stopped"} /\ ws[w].env.image_id = i

\* The pcs of a pipeline run: from the download to the last Catalog write.
RunPcs == {"download", "stages", "done_image", "done_task", "fail_image",
           "fail_task"}

\* ---- C1
LegalEdges == { <<"pending", "processing">>, <<"processing", "completed">>,
                <<"processing", "failed">>, <<"failed", "pending">>,
                <<"completed", "deleted">>, <<"failed", "deleted">> }

\* The edge the gateway's compensation (_mark_failed_safe after a failed
\* enqueue) takes on purpose.
CompensationEdge == <<"pending", "failed">>

\* C1: every change of an image's status is one of pending->processing,
\* processing->completed, processing->failed, failed->pending,
\* completed->deleted, failed->deleted; no other change ever occurs.  (The
\* change pending->failed of the gateway's compensation, which the claim
\* counts among its operations, is not held against the code here.)
C1_LegalTransitions ==
  [][\A i \in ImageIds :
       (images[i].status # NoRow /\ images'[i].status # images[i].status)
         => <<images[i].status, images'[i].status>>
              \in LegalEdges \cup {CompensationEdge}]_vars

\* ---- C2
\* C2: with several envelopes for one image delivered to parallel workers,
\* one pipeline run is executed: never two runs for the same image in flight
\* at once, and at most one Task row of the image gets a completion.
C2_OneRun ==
  \A i \in ImageIds :
    /\ Cardinality({ w \in Workers : workers[w].pc \in RunPcs /\ Img(w) = i }) <= 1
    /\ Cardinality({ t \in 1 .. Len(tasks) :
                       tasks[t].image_id = i /\ tasks[t].completed_at }) <= 1

\* ---- C3
\* C3: when an upload or retry request of the gateway returns, an image it
\* leaves in status pending has an envelope on the queue or held by a
\* worker, also when the enqueue failed and when the compensating
\* set_failed write failed.
C3_PendingHasEnvelope ==
  [][\A r \in Slots :
       (/\ req[r].op \in {"upload", "retry"}
        /\ req'[r].op = "idle"
        /\ images'[req[r].image].status = "pending")
         => (EnvCount(queue', req[r].image) > 0 \/ Held(workers', req[r].image))]_vars

\* ---- C4
\* C4: at the moment upload returns success with image_id I, the original
\* bytes are stored under raw/{owner}/..., the row I exists with status
\* pending, and exactly one envelope for I has been put on the queue.
C4_UploadSuccess ==
  [][\A r \in Slots :
       (req[r].op = "upload" /\ req[r].pc = "enqueue" /\ req'[r].op = "idle")
         => LET I == req[r].image
            IN /\ RawKey(I) \in blobs'
               /\ RawKey(I)[1] = "raw" /\ RawKey(I)[2] = Owner(I)
               /\ images'[I].status = "pending"
               /\ EnvCount(queue', I) = 1
               /\ ~Held(workers', I)]_vars

\* ---- C5
\* C5: every payload a worker takes ends either with the image driven to
\* completed or failed by that worker or with the payload appended to the
\* dead-letter list: a payload that is no task is appended to the
\* dead-letter list, and the terminal write of a run leaves the image
\* completed or failed (a hard kill of the worker is not the worker's step).
C5_NoSilentDrop ==
  [][\A w \in Workers :
       /\ (/\ workers[w].pc = "idle" /\ FirstIdle(w)
           /\ Len(queue') < Len(queue)
           /\ Decode(Head(queue)).kind # "task")
            => dlq' = Append(dlq, Head(queue))
       /\ (/\ workers[w].pc \in {"done_image", "fail_image"}
           /\ workers'[w].pc \notin {workers[w].pc, "stopped"})
            => images'[Img(w)].status \in {"completed", "failed"}]_vars

\* ---- C6
\* C6: in every state and for every image, protected_url is set if and only
\* if the status is completed.
C6_ProtectedIffCompleted ==
  \A i \in ImageIds :
    images[i].status # NoRow
      => (images[i].protected_url # NoUrl <=> images[i].status = "completed")

\* ---- C7
\* C7: in every state, an image whose status is completed has its
\* protected_url set and a blob in the Object Store under that key, also
\* while a delete of the image is in progress and when the soft-delete
\* write fails.
C7_CompletedHasBlob ==
  \A i \in ImageIds :
    images[i].status = "completed"
      => (images[i].protected_url # NoUrl /\ images[i].protected_url \in blobs)

\* ---- C8
\* Bit accuracy (128 - wrong) / 128 >= 0.75, in hundredths.
AccuracyOk(wrong) == 100 * (WATERMARK_BITS - wrong) >= 75 * WATERMARK_BITS

\* The blob protected/{image_id}.png is written in this step.
BlobWritten(i) ==
  ProtKey(i) \in blobs' /\ (ProtKey(i) \notin blobs \/ sealed'[i] # sealed[i])

C9_SkipFrame ==
  [][\A w \in Workers :
       (/\ workers[w].pc = "dedup"
        /\ SkipStatus(images[Img(w)].status)
        /\ workers'[w] # workers[w]
        /\ workers'[w].pc # "stopped")
         => (/\ workers'[w] = WIdle
             /\ images' = images /\ tasks' = tasks /\ blobs' = blobs)]_vars

\* ---- C10
\* C10: when a worker is killed after it took an envelope and before its
\* terminal write, the envelope is delivered again: it is back on the queue.
C10_CrashRedelivers ==
  [][\A w \in Workers :
       (workers[w].pc \notin {"idle", "stopped"} /\ workers'[w].pc = "stopped")
         => EnvCount(queue', Img(w)) > EnvCount(queue, Img(w))]_vars

\* ---- C11
\* C11: an image whose status is failed never enters processing directly: only
\* a retry (failed -> pending) may come between, so no step takes an image
\* from failed to processing, whatever envelope is left for it.
C11_FailedNotReprocessed ==
  [][\A i \in ImageIds :
       images[i].status = "failed" => images'[i].status # "processing"]_vars

\* ---- C13
\* The names of the pipeline stages, as process_image reports them.
Stages == {"download", "pixelseal", "mist_v2", "verify_watermark",
           "c2pa_sign", "upload"}

\* The error text log contains the word s.
Mentions(log, s) == \E k \in 1..Len(log) : log[k] = s

\* C13: every error_log recorded on a Task row names the pipeline stage that
\* failed; a watermark verification that returns match = false leaves an
\* error_log that mentions verify_watermark.
C13_ErrorLogNamesStage ==
  \A k \in 1..Len(tasks) :
    tasks[k].error_log # NoLog
      => /\ \E s \in Stages : Mentions(tasks[k].error_log, s)
         /\ Mentions(tasks[k].error_log, "Watermark")
              => Mentions(tasks[k].error_log, "verify_watermark")

\* ---- C14
\* C14: every image whose status is completed or failed has at least one Task
\* row with a terminal outcome (completed_at set or error_log set).
C14_TerminalTask ==
  \A i \in ImageIds :
    images[i].status \in {"completed", "failed"}
      => \E k \in 1..Len(tasks) :
           /\ tasks[k].image_id = i
           /\ (tasks[k].completed_at \/ tasks[k].error_log # NoLog)

\* ---- C15
\* C15: every image whose status is completed has a provenance manifest
\* recorded in its row (c2pa_manifest is not NULL).
C15_CompletedHasManifest ==
  \A i \in ImageIds :
    images[i].status = "completed" => images[i].c2pa_manifest # NoManifest

\* ---- C16
\* C16: once a run has recorded a watermark_id on an image row, no later step
\* changes that value.
C16_WatermarkIdImmutable ==
  [][\A i \in ImageIds :
       images[i].watermark_id # 0
         => images'[i].watermark_id = images[i].watermark_id]_vars

\* ---- C17
\* C17: after a delete has succeeded (the row's status is deleted), the image
\* never becomes visible again: no step takes the row out of deleted.
C17_DeletedStaysDeleted ==
  [][\A i \in ImageIds :
       images[i].status = "deleted" => images'[i].status = "deleted"]_vars

\* ---- C12
\* C12: a retry call goes on to its writes only when the status it read is
\* failed; its set_pending write makes the status pending and its return
\* after that puts exactly one envelope with the image's original key at the
\* end of the queue.  A call that read pending, processing or completed ends
\* with 409 and that call changes neither the Catalog nor the queue.
C12_RetryOnlyWhenFailed ==
  [][\A r \in Slots :
       LET i == req'[r].image
           j == req[r].image
       IN /\ (req[r].op = "idle" /\ req'[r].op = "retry")
               => /\ images[i].status = "failed" => req'[r].pc = "set_pending"
                  /\ images[i].status \in {"pending", "processing", "completed"}
                       => req'[r].pc = "conflict"
                  /\ images' = images /\ queue' = queue
          /\ (req[r].op = "retry" /\ req[r].pc = "set_pending"
                /\ req'[r].pc = "enqueue")
               => images'[j].status = "pending" /\ queue' = queue
          /\ (req[r].op = "retry" /\ req[r].pc = "enqueue"
                /\ req'[r].op = "idle")
               => /\ queue' = Append(queue, Envelope(j, RawKey(j)))
                  /\ images' = images
          /\ (req[r].op = "retry" /\ req[r].pc = "conflict"
                /\ req'[r] # req[r])
               => /\ req'[r].op = "idle"
                  /\ images' = images /\ tasks' = tasks /\ queue' = queue]_vars

\* A retry of a failed image has written pending and is about to enqueue,
\* and another retry of the same image, which read a status other than
\* failed, is being refused.
C12_Witness ==
  \E r, q \in Slots :
    /\ req[r].op = "retry" /\ req[r].pc = "enqueue"
    /\ images[req[r].image].status = "pending"
    /\ req[q].op = "retry" /\ req[q].pc = "conflict"
    /\ req[q].image = req[r].image

\* ---- C18
\* C18: delete is idempotent on state: a delete called on an image whose
\* delete has already succeeded (the row is in deleted) is answered without
\* any write; the Catalog, the Object Store and the queue stay as they were
\* and the row stays in deleted.
C18_DeleteIdempotent ==
  [][\A r \in Slots :
       /\ (req[r].op = "idle" /\ req'[r].op = "delete"
             /\ images[req'[r].image].status = "deleted")
            => /\ req'[r].pc = "notfound"
               /\ images' = images /\ tasks' = tasks /\ blobs' = blobs
               /\ queue' = queue
       /\ (req[r].op = "delete" /\ req[r].pc = "notfound" /\ req'[r] # req[r])
            => /\ req'[r].op = "idle"
               /\ images' = images /\ tasks' = tasks /\ blobs' = blobs
               /\ queue' = queue]_vars

\* A second delete of an image that is still in deleted is being answered.
C18_Witness ==
  \E r \in Slots :
    /\ req[r].op = "delete" /\ req[r].pc = "notfound"
    /\ images[req[r].image].status = "deleted"

\* ---- C20
\* C20: track_download is atomic: every successful call makes download_count
\* exactly one larger than it was just before the call's write, so that k
\* successful calls, in any interleaving, make it grow by k and return k
\* distinct consecutive values.
C20_TrackAtomic ==
  [][\A r \in Slots :
       (req[r].op = "track" /\ req[r].pc = "write" /\ req'[r].op = "idle")
         => images'[req[r].image].download_count
              = images[req[r].image].download_count + 1]_vars

\* ---- C19
\* C19: for a free-tier owner the number of non-deleted image rows created in
\* the current calendar month never exceeds 5, in every interleaving of
\* upload requests.
C19_FreeTierCap ==
  plan.subscription_tier = "free" => plan.count <= FREE_TIER_MONTHLY_LIMIT

\* ---- C21
\* C21: every per-image operation (get, delete, track_download, task status,
\* retry) called on a visible image by a user who is not its owner is answered
\* 403: the call is marked forbidden when it is admitted, the answer carries
\* no field of the image, and neither the admission nor the answer changes
\* the Catalog, the Object Store or the queue.
C21_ForeignForbidden ==
  [][\A r \in Slots :
       /\ (/\ req[r].op = "idle"
           /\ req'[r].op \in {"get", "delete", "track", "status", "retry"}
           /\ req'[r].user # Owner(req'[r].image)
           /\ get_image(req'[r].image))
            => /\ req'[r].pc = "forbidden"
               /\ Response(r)' = [code |-> 403, image |-> NoImage]
               /\ images' = images /\ tasks' = tasks /\ blobs' = blobs
               /\ queue' = queue
       /\ (req[r].pc = "forbidden" /\ req'[r] # req[r])
            => /\ req'[r].op = "idle"
               /\ images' = images /\ tasks' = tasks /\ blobs' = blobs
               /\ queue' = queue]_vars

\* A user who is not the owner has called delete on a completed image and is
\* being refused, with the image's blobs in place.
C21_Witness ==
  \E r \in Slots :
    /\ req[r].op = "delete" /\ req[r].pc = "forbidden"
    /\ req[r].user # Owner(req[r].image)
    /\ images[req[r].image].status = "completed"
    /\ ProtKey(req[r].image) \in blobs

\* ---- C22
\* The validation rules as the claim states them.
RuleRejects(f) ==
  \/ f.content_type \notin {"image/png", "image/jpeg", "image/webp"}
  \/ f.size > 20 * 1024 * 1024
  \/ f.magic # f.content_type

\* C22: an upload whose file the validation rules reject (declared MIME not
\* png / jpeg / webp: 415; larger than 20 MiB: 413; magic bytes not those of
\* the declared MIME: 415) is answered with that code and writes nothing: no
\* blob, no Image row, no envelope.
C22_RejectedWritesNothing ==
  [][\A r \in Slots :
       LET f == req'[r].file
       IN /\ (req[r].op = "idle" /\ req'[r].op = "upload" /\ RuleRejects(f))
               => /\ req'[r].pc = "rejected"
                  /\ req'[r].seen \in {413, 415}
                  /\ f.content_type \notin {"image/png", "image/jpeg", "image/webp"}
                       => req'[r].seen = 415
                  /\ (f.content_type = f.magic /\ f.size > 20 * 1024 * 1024)
                       => req'[r].seen = 413
                  /\ images' = images /\ blobs' = blobs /\ queue' = queue
          /\ (req[r].op = "upload" /\ req[r].pc = "rejected" /\ req'[r] # req[r])
               => /\ req'[r].op = "idle"
                  /\ images' = images /\ blobs' = blobs /\ queue' = queue]_vars

\* A PNG of 20 MiB + 1 byte, declared image/png, is being refused with 413.
C22_Witness ==
  \E r \in Slots :
    /\ req[r].op = "upload" /\ req[r].pc = "rejected" /\ req[r].seen = 413
    /\ req[r].file = [content_type |-> "image/png",
                      size |-> 20 * 1024 * 1024 + 1, magic |-> "image/png"]
    /\ blobs = {} /\ queue = << >>

\* ---- C23
\* The pcs of a worker that holds an envelope and is working on it.
Working == {"dedup", "mark", "insert", "download", "stages", "done_image",
            "done_task", "fail_image", "fail_task"}

\* C23: after a shutdown signal a worker starts no further take; the task in
\* flight goes on (the signal changes nothing but the flag) and the worker
\* leaves only at the end of the iteration, after the terminal writes; an
\* envelope that the take already waiting returns after the signal is kept
\* by the worker and processed like any other.
C23_GracefulShutdown ==
  [][\A w \in Workers :
       /\ workers[w].shutdown => workers[w].pc # "idle"
       /\ (workers[w].shutdown /\ queue' # queue /\ workers'[w] # workers[w]
             /\ workers[w].pc \notin Working)
            => workers[w].pc = "blpop"
       /\ (~workers[w].shutdown /\ workers'[w].shutdown
             /\ workers[w].pc \in Working)
            => workers'[w] = [workers[w] EXCEPT !.shutdown = TRUE]
       /\ (workers[w].shutdown /\ workers[w].pc \in Working
             /\ workers'[w].pc = "exited")
            => \/ workers[w].pc \in {"done_task", "fail_task"}
               \/ workers[w].pc \in {"done_image", "fail_image"}
                    /\ workers[w].task_id = 0
               \/ workers[w].pc = "dedup"
                    /\ SkipStatus(images[Img(w)].status)
       /\ (workers[w].pc = "blpop" /\ queue # << >> /\ queue' = Tail(queue)
             /\ workers'[w] # workers[w]
             /\ Decode(Head(queue)).kind = "task")
            => /\ workers'[w].pc = "dedup"
               /\ workers'[w].env = Decode(Head(queue))]_vars

\* A worker that has been signalled has run the task it holds to the
\* completed write and is about to finish the iteration.
C23_Witness ==
  \E w \in Workers :
    /\ workers[w].shutdown /\ workers[w].pc = "done_task"
    /\ images[Img(w)].status = "completed"

\* ---- C24
\* C24: every payload taken from the queue that does not decode into an
\* object with image_id and storage_key (invalid JSON, a JSON value that is
\* not an object, a missing field) is appended to the dead-letter queue,
\* causes no Catalog write, and the worker that took it does not stop.
C24_MalformedToDlq ==
  [][(queue # << >> /\ queue' = Tail(queue)
        /\ Decode(Head(queue)).kind # "task")
       => /\ dlq' = Append(dlq, Head(queue))
          /\ images' = images /\ tasks' = tasks
          /\ \A w \in Workers :
               workers'[w].pc = "stopped" => workers[w].pc = "stopped"]_vars

\* ---- C25
\* C25: the gateway and the worker agree on the queue: the gateway pushes to
\* the list the worker pops from (both keys are lore_anchor_tasks), payloads
\* are appended at the tail and taken from the head (FIFO), decoding the
\* envelope the gateway enqueues for an image yields exactly that image_id
\* and storage_key, and a step that takes such an envelope hands this task
\* to a worker and appends nothing to the dead-letter list.
C25_QueueAgreement ==
  [][/\ ApiQueueKey = WorkerQueueKey
     /\ \A i \in ImageIds :
          Decode(Envelope(i, RawKey(i)))
            = [kind |-> "task", image_id |-> i, storage_key |-> RawKey(i)]
     /\ Len(queue') > Len(queue) => queue' = Append(queue, queue'[Len(queue')])
     /\ Len(queue') < Len(queue) => queue' = Tail(queue)
     /\ \A i \in ImageIds :
          (/\ queue # << >> /\ Head(queue) = Envelope(i, RawKey(i))
           /\ queue' = Tail(queue))
            => /\ dlq' = dlq
               /\ \E w \in Workers :
                    /\ workers[w].pc \in {"idle", "blpop"}
                    /\ workers'[w].pc = "dedup"
                    /\ workers'[w].env.image_id = i
                    /\ workers'[w].env.storage_key = RawKey(i)]_vars

\* A worker holds the task decoded from the envelope of image 1 while a
\* second payload waits behind it, and nothing was dead-lettered.
C25_Witness ==
  /\ dlq = << >>
  /\ queue # << >>
  /\ \E w \in Workers :
       /\ workers[w].pc = "dedup"
       /\ workers[w].env = Decode(Envelope(1, RawKey(1)))

C27_ListClamps ==
  \A r \in Slots :
    (req[r].op = "list" /\ req[r].pc = "ok")
      => LET page == req[r].list.query[1]
             page_size == req[r].list.query[2]
         IN /\ req[r].list.page = (IF page > 1 THEN page ELSE 1)
            /\ req[r].list.page_size =
                 (IF page_size < 1 THEN 1
                  ELSE IF page_size > 100 THEN 100 ELSE page_size)

\* ---- C28
\* C28: a call of the Catalog's update_status (set_failed, set_pending) by
\* a gateway request changes the status of the row only along an edge of
\* the legal status graph; for any other pair the row stays as it is.
C28_UpdateStatusGuarded ==
  [][\A r \in Slots :
       (/\ req[r].pc \in {"mark_failed", "set_pending"}
        /\ req'[r] # req[r]
        /\ images'[req[r].image].status # images[req[r].image].status)
         => <<images[req[r].image].status, images'[req[r].image].status>>
              \in LegalEdges]_vars

\* ---- C29
\* C29: a worker goes on from marking an image to its pipeline run (task
\* row, download, stages) only in a step in which its own write took the
\* row from pending to processing; when the row is not pending, or the
\* write fails, it goes back to the queue and runs no stage.
C29_StartsOnlyAfterOwnMark ==
  [][\A w \in Workers :
       (workers[w].pc = "mark" /\ workers'[w].pc \in {"insert"} \cup RunPcs)
         => /\ images[Img(w)].status = "pending"
            /\ images'[Img(w)].status = "processing"]_vars

\* ---- C30
\* C30: once an image's row carries a terminal status (completed or
\* failed), a later terminal write does not change the row: no step takes
\* a completed or failed row to a different row that is completed or
\* failed.
C30_FirstTerminalWriteWins ==
  [][\A i \in ImageIds :
       (/\ images[i].status \in {"completed", "failed"}
        /\ images'[i].status \in {"completed", "failed"})
         => images'[i] = images[i]]_vars

\* ---- C31
\* C31: the step in which a worker reads the status of the image its
\* well-formed envelope names, and finds no row, appends the envelope to
\* the dead-letter list and ends the iteration; a worker never holds an
\* envelope of a rowless image at the task insert or in a pipeline run.
C31_RowlessToDlq ==
  [][\A w \in Workers :
       /\ (/\ workers[w].pc = "dedup" /\ workers'[w].pc # "dedup"
           /\ workers'[w].pc # "stopped"
           /\ _get_image_status(Img(w)) = "None")
            => /\ Len(dlq') = Len(dlq) + 1
               /\ Decode(dlq'[Len(dlq')]) = workers[w].env
               /\ workers'[w].pc \in {"idle", "exited"}
       /\ (workers'[w].pc \in {"insert"} \cup RunPcs)
            => images'[workers'[w].env.image_id].status # NoRow]_vars

\* ---- C32
\* C32: a pipeline run on an image for which the signer raises fails at the
\* sign stage: the step that runs its stages writes nothing to
\* protected/{image_id}.png and sends the run to the failure handler, and
\* no worker writes completed for such an image.
C32_SignerFailureFailsRun ==
  [][\A w \in Workers :
       /\ (/\ workers[w].pc = "stages" /\ workers'[w].pc \notin {"stages", "stopped"}
           /\ content[Img(w)] = "c2pa_sign")
            => /\ ~BlobWritten(Img(w))
               /\ workers'[w].pc = "fail_image"
               /\ workers'[w].ran = RanUpTo("c2pa_sign")
       /\ (/\ workers[w].pc = "done_image" /\ workers'[w].pc # "done_image"
           /\ content[Img(w)] = "c2pa_sign")
            => images'[Img(w)].status # "completed"]_vars

\* ---- C33
\* s is an initial part of t.
IsPrefix(s, t) == Len(s) <= Len(t) /\ SubSeq(t, 1, Len(s)) = s

\* C33: the stages a run has started are an initial part of download,
\* pixelseal, mist_v2, verify_watermark, c2pa_sign, upload (fixed order,
\* each at most once); a run in the failure handler with a stage error
\* started nothing after the stage it names; a run on an image for which
\* some stage raises stops at that stage; and completed is written only by
\* a run that went through all six stages.
C33_StagesInOrder ==
  [][\A w \in Workers :
       /\ IsPrefix(workers'[w].ran, StageOrder)
       /\ (workers'[w].pc = "fail_image" /\ workers'[w].err[1] = "Step:")
            => workers'[w].ran = RanUpTo(workers'[w].err[2])
       /\ (/\ workers[w].pc = "stages" /\ workers'[w].pc \notin {"stages", "stopped"}
           /\ content[Img(w)] # "none")
            => /\ workers'[w].pc = "fail_image"
               /\ workers'[w].ran = RanUpTo(content[Img(w)])
       /\ (/\ workers[w].pc = "done_image" /\ workers'[w].pc # "done_image"
           /\ images'[Img(w)] # images[Img(w)])
            => /\ images'[Img(w)].status = "completed"
               /\ workers[w].ran = StageOrder]_vars

\* ---- C34
\* C34: with fair scheduling, at least one worker that keeps running and no
\* dependency failure, every image that is pending or processing (after
\* its upload, or after a retry) is eventually completed or failed.
C34_EventuallyTerminal ==
  \A i \in ImageIds :
    (images[i].status \in {"pending", "processing"})
      ~> (images[i].status \in {"completed", "failed"})

\* ---- C36
\* C36: verify_watermark on an extracted id that differs from the expected
\* id in d of the 128 bits returns accuracy = (128 - d) / 128 and
\* match = TRUE exactly when accuracy >= 0.75, that is exactly when d <= 32.
C36_AccuracyAndThreshold ==
  (lab.fn = "verify_watermark" /\ lab.out # << >>)
    => LET d == lab.arg.flipped
           r == lab.out[1]
       IN /\ r.accuracy = <<128 - d, 128>>
          /\ r.match <=> (4 * r.accuracy[1] >= 3 * r.accuracy[2])
          /\ r.match <=> (d <= 32)

\* verify_watermark has answered for an id with exactly 32 wrong bits, the
\* last distance that still matches.
C36_Witness ==
  /\ lab.fn = "verify_watermark" /\ lab.out # << >>
  /\ lab.arg.flipped = 32
  /\ lab.out[1].match

\* ---- C35
\* C35: when the output of the perturbation differs from the watermarked
\* input by more than epsilon on some pixel channel, or has another shape,
\* the mist_v2 step fails; so an output that the step lets through is
\* within epsilon of its input everywhere, in VAE mode and in freq mode.
C35_PerturbationBounded ==
  (lab.fn = "mist_v2" /\ lab.out # << >>)
    => (MaxDiff(lab.out[1].protected, lab.arg.image) > MIST_EPSILON
          => lab.out[1].raised)

\* ---- C37
\* C37: in every state, for every completed image whose blob
\* protected/{image_id}.png exists, the watermark_id in its Catalog row is
\* the watermark_id embedded in that blob, also when two pipeline runs for
\* the image overlap.
C37_RowMatchesBlob ==
  \A i \in ImageIds :
    (images[i].status = "completed" /\ ProtKey(i) \in blobs)
      => images[i].watermark_id = sealed[i]

\* ---- C38
\* C38: in every state the queue holds at most one envelope per image_id,
\* and the storage_key of every queued envelope is the original key of the
\* image it names; two retry calls on the same failed image that both pass
\* the status check do not leave two envelopes.
C38_OneEnvelopePerImage ==
  /\ \A i \in ImageIds : EnvCount(queue, i) <= 1
  /\ \A k \in 1 .. Len(queue) :
       Decode(queue[k]).kind = "task"
         => Decode(queue[k]).storage_key = RawKey(Decode(queue[k]).image_id)

\* ---- C39
\* C39: the dedup gate fails closed: a worker whose read of the image status
\* fails (the read still raising after its retries) does not go on to run
\* the pipeline for that envelope.
C39_DedupFailsClosed ==
  [][\A w \in Workers :
       (/\ workers[w].pc = "dedup"
        /\ nEvents' # nEvents
        /\ workers'[w] # workers[w]
        /\ workers'[w].pc # "stopped")
         => workers'[w].pc \notin {"mark", "insert", "download"}]_vars

\* ---- C40
\* The pipeline runs in flight for image i: the queue workers past the dedup
\* gate and the CPU worker between its processing mark and its terminal write.
RunsInFlight(i) ==
  Cardinality({ w \in Workers : workers[w].pc \in RunPcs /\ Img(w) = i })
    + (IF cpu.pc \in {"run", "finish"} /\ CImg = i THEN 1 ELSE 0)

\* C40: with the CPU worker polling pending rows next to the queue workers,
\* each pending image is processed by at most one worker: never two runs for
\* the same image in flight at once, and no image that is completed is
\* written completed a second time.
C40_CpuAndQueueWorkersExclusive ==
  /\ [](\A i \in ImageIds : RunsInFlight(i) <= 1)
  /\ [][\A i \in ImageIds :
          (images[i].status = "completed" /\ images'[i] # images[i])
            => images'[i].status # "completed"]_vars

====
